---- MODULE Spec2Model ----
(***************************************************************************)
(* Training control loop and checkpoint/resume state machine of            *)
(* training_utils/captioning_model_trainer.py (class Trainer).             *)
(*                                                                         *)
(* One process at a time runs Trainer.train; the two checkpoint files      *)
(* last_model.pth and best_model.pth outlive it.  The loop body is cut at  *)
(* the statements between which the process can be interrupted:            *)
(*   train -> eval -> policy -> phase -> rollback -> save -> promote       *)
(*         -> advance -> (train | done)                                    *)
(***************************************************************************)
EXTENDS Integers, Sequences, FiniteSets, TLC

\* ---------------------------------------------------------------- bounds
\* validation CIDEr values an evaluation can return: 0..MaxMetric
MaxMetric == 1
\* the loop is followed while the epoch counter is at most MaxEpoch
MaxEpoch == 14
\* number of times the process is started again after the first start
MaxRestarts == 1
\* len(self.train_dataloader): batches of one training pass
NumBatches == 2
\* captions of at most MaxLen tokens over MaxToken words
MaxToken == 2
MaxLen == 4
\* samples in one batch of a dataloader: at most MaxBatchSize
MaxBatchSize == 2
\* training_beam_size is in 1..MaxBeamSize, a candidate's CIDEr in 0..MaxReward
MaxBeamSize == 2
MaxReward == 1

\* ------------------------------------------------------ program constants
\* `if patience == 5:`
PatienceThreshold == 5

Metrics == 0..MaxMetric

\* ------------------------------------------------------------- the state
VARIABLES
    \* position of the process in Trainer.train
    pc,
    \* Trainer fields
    epoch, model_sd, optim, scheduler, rng,
    \* locals of Trainer.train
    use_rl, best_val_cider, best_test_cider, patience,
    val_loss, val_cider, best, switch_to_rl, exit_train,
    \* the files of the run directory
    last_model, best_model,
    \* history (not program state)
    run_fresh, asked, evals, seen_max, max_epoch, streak, prev_rl, prev_val,
    prev_best, last_writes, best_writes, restarts, mem_at_save,
    \* one call of a function of the trainer on its own: its arguments and
    \* what it has returned so far
    call

fields == <<epoch, model_sd, optim, scheduler, rng>>
locals == <<use_rl, best_val_cider, best_test_cider, patience>>
epoch_locals == <<val_loss, val_cider, best, switch_to_rl, exit_train>>
files == <<last_model, best_model>>
run_hist == <<run_fresh, asked, evals, seen_max, max_epoch, streak, prev_rl, prev_val,
              prev_best>>
write_hist == <<last_writes, best_writes>>
global_hist == <<restarts, mem_at_save>>
trainer == <<pc, fields, locals, epoch_locals, files, run_hist, write_hist, global_hist>>
vars == <<trainer, call>>

\* ------------------------------------------------------------ file values
Absent == [state |-> "absent"]
\* a file whose write was cut short: torch.load raises on it
Partial == [state |-> "partial"]
Complete(c) == [state |-> "complete", data |-> c]

isfile(f) == f.state # "absent"
Readable(f) == f.state = "complete"

\* ------------------------------------------------------------ constructor
\* Adam(model.parameters(), lr=1, betas=(0.9, 0.98)) driven by LambdaLR
InitOptim == [kind |-> "warmup", steps |-> 0]
\* Adam(self.model.parameters(), lr=5e-6)
RLOptim == [kind |-> "rl", steps |-> 0]

\* the weights build_model gives a new process, and its RNG state
InitWeights == 0
InitRng == 0

\* what the run directory has never held
NoCheckpoint ==
    [rng |-> InitRng, epoch |-> 0, state_dict |-> InitWeights,
     optimizer |-> InitOptim, scheduler |-> 0,
     val_loss |-> 0, val_cider |-> 0, patience |-> 0,
     best_val_cider |-> 0, best_test_cider |-> 0, use_rl |-> FALSE]

\* the in-memory run state a checkpoint is compared with
RunState(e, rl, bv, bt, p, sd) ==
    [epoch |-> e, use_rl |-> rl, best_val_cider |-> bv, best_test_cider |-> bt,
     patience |-> p, state_dict |-> sd]

NoRunState == RunState(0, FALSE, 0, 0, 0, InitWeights)

\* no function is called on its own while train runs
NoCall == [op |-> "none"]

Idle ==
    /\ pc = "idle"
    /\ epoch = 0
    /\ model_sd = InitWeights
    /\ optim = InitOptim
    /\ scheduler = 0
    /\ rng = InitRng
    /\ use_rl = FALSE
    /\ best_val_cider = 0
    /\ best_test_cider = 0
    /\ patience = 0
    /\ val_loss = 0
    /\ val_cider = 0
    /\ best = FALSE
    /\ switch_to_rl = FALSE
    /\ exit_train = FALSE
    /\ last_model = Absent
    /\ best_model = Absent
    /\ run_fresh = TRUE
    /\ asked = "none"
    /\ evals = 0
    /\ seen_max = 0
    /\ max_epoch = 0
    /\ streak = 0
    /\ prev_rl = FALSE
    /\ prev_val = <<>>
    /\ prev_best = FALSE
    /\ last_writes = 0
    /\ best_writes = 0
    /\ restarts = 0
    /\ mem_at_save = [last |-> NoRunState, best |-> NoRunState]

Init ==
    /\ Idle
    /\ call = NoCall

\* ------------------------------------------------------- Checkpoint Store
\* load_checkpoint without `self.model.load_state_dict(...)`
load_checkpoint_KeepsWeights(f, sd, r) ==
    IF ~isfile(f)
    THEN [raised |-> FALSE, found |-> FALSE, model_sd |-> sd, rng |-> r,
          ret |-> NoCheckpoint]
    ELSE IF ~Readable(f)
    THEN [raised |-> TRUE, found |-> TRUE, model_sd |-> sd, rng |-> r,
          ret |-> NoCheckpoint]
    ELSE [raised |-> FALSE, found |-> TRUE, model_sd |-> sd, rng |-> f.data.rng,
          ret |-> f.data]

\* load_checkpoint that swallows the error of torch.load
load_checkpoint_Lenient(f, sd, r) ==
    IF ~Readable(f)
    THEN [raised |-> FALSE, found |-> FALSE, model_sd |-> sd, rng |-> r,
          ret |-> NoCheckpoint]
    ELSE [raised |-> FALSE, found |-> TRUE,
          model_sd |-> f.data.state_dict, rng |-> f.data.rng,
          ret |-> f.data]

\* Trainer.load_checkpoint(fname) called with weights sd and RNG state r in
\* memory: what it leaves in memory and what it returns.
load_checkpoint(f, sd, r) ==
    IF ~isfile(f)
    THEN [raised |-> FALSE, found |-> FALSE, model_sd |-> sd, rng |-> r,
          ret |-> NoCheckpoint]
    ELSE IF ~Readable(f)
    THEN [raised |-> TRUE, found |-> TRUE, model_sd |-> sd, rng |-> r,
          ret |-> NoCheckpoint]
    ELSE [raised |-> FALSE, found |-> TRUE,
          model_sd |-> f.data.state_dict, rng |-> f.data.rng,
          ret |-> f.data]

\* save_checkpoint that stores the epoch counter of the next epoch
save_checkpoint_NextEpoch(dict_for_updating) ==
    dict_for_updating @@
    [rng |-> rng, epoch |-> epoch + 1, state_dict |-> model_sd,
     optimizer |-> optim, scheduler |-> scheduler]

\* Trainer.save_checkpoint(dict_for_updating): the dictionary torch.save gets
save_checkpoint(dict_for_updating) ==
    dict_for_updating @@
    [rng |-> rng, epoch |-> epoch, state_dict |-> model_sd,
     optimizer |-> optim, scheduler |-> scheduler]

\* ------------------------------------------------------- Phase Controller
\* `if val_cider > best_val_cider:`
IsBest_Strict(v, b) == v > b

\* `if val_cider >= best_val_cider:`
IsBest(v, b) == v >= b

Running == {"train", "eval", "policy", "phase", "rollback", "save", "promote", "advance"}
Stopped == {"idle", "down", "done", "error"}

\* the checkpoint_filename argument of train: None, or one of the two slots
FileOf(choice) ==
    CASE choice = "none" -> Absent
      [] choice = "last" -> last_model
      [] choice = "best" -> best_model

\* the history of a run that starts with best_val_cider = known
StartHist(choice, fresh, known) ==
    /\ run_fresh' = fresh
    /\ asked' = choice
    /\ evals' = 0
    /\ seen_max' = known
    /\ max_epoch' = 0
    /\ streak' = 0
    /\ prev_rl' = FALSE
    /\ prev_val' = <<>>
    /\ prev_best' = FALSE
    /\ last_writes' = 0
    /\ best_writes' = 0
    /\ restarts' = IF pc = "idle" THEN restarts ELSE restarts + 1
    /\ UNCHANGED mem_at_save

Constructed ==
    /\ val_loss' = 0
    /\ val_cider' = 0
    /\ best' = FALSE
    /\ switch_to_rl' = FALSE
    /\ exit_train' = FALSE

\* a process is started: Trainer.__init__, then train(checkpoint_filename)
\* up to the loop, with no usable checkpoint (the else branch)
StartFresh(choice) ==
    /\ pc \in Stopped
    /\ pc # "idle" => restarts < MaxRestarts
    /\ ~isfile(FileOf(choice))
    /\ pc' = "train"
    /\ epoch' = 0
    /\ model_sd' = InitWeights
    /\ optim' = InitOptim
    /\ scheduler' = 0
    /\ rng' = InitRng
    /\ use_rl' = FALSE
    /\ best_val_cider' = 0
    /\ best_test_cider' = 0
    /\ patience' = 0
    /\ Constructed
    /\ StartHist(choice, TRUE, 0)
    /\ UNCHANGED files
    /\ UNCHANGED call

\* a process is started on an existing checkpoint file
StartResume(choice) ==
    /\ pc \in Stopped
    /\ pc # "idle" => restarts < MaxRestarts
    /\ choice # "none"
    /\ isfile(FileOf(choice))
    /\ LET r == load_checkpoint(FileOf(choice), InitWeights, InitRng)
           checkpoint == r.ret
       IN IF r.raised
          THEN /\ pc' = "error"
               /\ epoch' = 0
               /\ model_sd' = InitWeights
               /\ optim' = InitOptim
               /\ scheduler' = 0
               /\ rng' = InitRng
               /\ use_rl' = FALSE
               /\ best_val_cider' = 0
               /\ best_test_cider' = 0
               /\ patience' = 0
          ELSE /\ pc' = "train"
               /\ model_sd' = r.model_sd
               /\ rng' = r.rng
               /\ use_rl' = checkpoint.use_rl
               /\ best_val_cider' = checkpoint.best_val_cider
               /\ best_test_cider' = checkpoint.best_test_cider
               /\ patience' = checkpoint.patience
               /\ epoch' = checkpoint.epoch
               /\ optim' = checkpoint.optimizer
               /\ scheduler' = checkpoint.scheduler
    /\ Constructed
    /\ StartHist(choice, FALSE, best_val_cider')
    /\ UNCHANGED files
    /\ UNCHANGED call

\* the weights a training pass leaves: new ones, told apart from the weights
\* of every other pass by the process and the epoch that trained them
TrainedWeights == restarts * (MaxEpoch + 2) + epoch + 1

\* evaluate_loss: the loss of the validation set under weights sd
LossOf(sd) == sd

\* self.train_xe(): one optimizer step and one scheduler step per batch
train_xe ==
    /\ pc = "train"
    /\ epoch <= MaxEpoch
    /\ ~use_rl
    /\ pc' = "eval"
    /\ model_sd' = TrainedWeights
    /\ rng' = 2 * TrainedWeights
    /\ optim' = [optim EXCEPT !.steps = @ + NumBatches]
    /\ scheduler' = scheduler + NumBatches
    /\ last_writes' = 0
    /\ best_writes' = 0
    /\ UNCHANGED <<epoch, locals, epoch_locals, files, run_hist, global_hist>>
    /\ UNCHANGED call

\* train_scst with `self.scheduler.step()` at the end of every batch
train_scst_StepsScheduler ==
    /\ pc = "train"
    /\ epoch <= MaxEpoch
    /\ use_rl
    /\ pc' = "eval"
    /\ model_sd' = TrainedWeights
    /\ rng' = 2 * TrainedWeights
    /\ optim' = [optim EXCEPT !.steps = @ + NumBatches]
    /\ scheduler' = scheduler + NumBatches
    /\ last_writes' = 0
    /\ best_writes' = 0
    /\ UNCHANGED <<epoch, locals, epoch_locals, files, run_hist, global_hist>>
    /\ UNCHANGED call

\* self.train_scst(): one optimizer step per batch, no scheduler step
train_scst ==
    /\ pc = "train"
    /\ epoch <= MaxEpoch
    /\ use_rl
    /\ pc' = "eval"
    /\ model_sd' = TrainedWeights
    /\ rng' = 2 * TrainedWeights
    /\ optim' = [optim EXCEPT !.steps = @ + NumBatches]
    /\ UNCHANGED scheduler
    /\ last_writes' = 0
    /\ best_writes' = 0
    /\ UNCHANGED <<epoch, locals, epoch_locals, files, run_hist, global_hist>>
    /\ UNCHANGED call

\* evaluate_loss and evaluate_metrics on the validation loaders
Evaluate ==
    /\ pc = "eval"
    /\ pc' = "policy"
    /\ val_loss' = LossOf(model_sd)
    /\ \E v \in Metrics :
         /\ val_cider' = v
         /\ streak' = IF v < seen_max
                      THEN (IF prev_rl = use_rl THEN streak ELSE 0) + 1
                      ELSE 0
         /\ seen_max' = IF v > seen_max THEN v ELSE seen_max
         /\ max_epoch' = IF v >= seen_max THEN epoch ELSE max_epoch
    /\ rng' = rng + 1
    /\ evals' = evals + 1
    /\ prev_rl' = use_rl
    /\ UNCHANGED <<epoch, model_sd, optim, scheduler, locals, best, switch_to_rl,
                   exit_train, files, run_fresh, asked, prev_val, prev_best,
                   write_hist, global_hist>>
    /\ UNCHANGED call

\* lines 305-312 without `patience = 0`
PolicyUpdate_NoReset ==
    /\ pc = "policy"
    /\ pc' = "phase"
    /\ IF IsBest(val_cider, best_val_cider)
       THEN /\ best_val_cider' = val_cider
            /\ best' = TRUE
            /\ UNCHANGED patience
       ELSE /\ patience' = patience + 1
            /\ best' = FALSE
            /\ UNCHANGED best_val_cider
    /\ UNCHANGED <<fields, use_rl, best_test_cider, val_loss, val_cider,
                   switch_to_rl, exit_train, files, run_hist, write_hist, global_hist>>
    /\ UNCHANGED call

\* lines 305-312
PolicyUpdate ==
    /\ pc = "policy"
    /\ pc' = "phase"
    /\ IF IsBest(val_cider, best_val_cider)
       THEN /\ best_val_cider' = val_cider
            /\ patience' = 0
            /\ best' = TRUE
       ELSE /\ patience' = patience + 1
            /\ best' = FALSE
            /\ UNCHANGED best_val_cider
    /\ UNCHANGED <<fields, use_rl, best_test_cider, val_loss, val_cider,
                   switch_to_rl, exit_train, files, run_hist, write_hist, global_hist>>
    /\ UNCHANGED call

\* `if patience == 4:`
PatienceReached_Early(p) == p = PatienceThreshold - 1

\* `if patience == 5:`
PatienceReached(p) == p = PatienceThreshold

\* the phase check with `use_rl = not use_rl` at every fifth epoch
PhaseCheck_Toggles ==
    /\ pc = "phase"
    /\ pc' = "rollback"
    /\ IF PatienceReached(patience)
       THEN /\ use_rl' = ~use_rl
            /\ switch_to_rl' = ~use_rl
            /\ patience' = 0
            /\ optim' = RLOptim
            /\ exit_train' = FALSE
       ELSE /\ switch_to_rl' = FALSE
            /\ exit_train' = FALSE
            /\ UNCHANGED <<use_rl, patience, optim>>
    /\ UNCHANGED <<epoch, model_sd, scheduler, rng, best_val_cider, best_test_cider,
                   val_loss, val_cider, best, files, run_hist, write_hist, global_hist>>
    /\ UNCHANGED call

\* lines 314-326
PhaseCheck ==
    /\ pc = "phase"
    /\ pc' = "rollback"
    /\ IF PatienceReached(patience)
       THEN IF ~use_rl
            THEN /\ use_rl' = TRUE
                 /\ switch_to_rl' = TRUE
                 /\ patience' = 0
                 /\ optim' = RLOptim
                 /\ exit_train' = FALSE
            ELSE /\ exit_train' = TRUE
                 /\ switch_to_rl' = FALSE
                 /\ UNCHANGED <<use_rl, patience, optim>>
       ELSE /\ switch_to_rl' = FALSE
            /\ exit_train' = FALSE
            /\ UNCHANGED <<use_rl, patience, optim>>
    /\ UNCHANGED <<epoch, model_sd, scheduler, rng, best_val_cider, best_test_cider,
                   val_loss, val_cider, best, files, run_hist, write_hist, global_hist>>
    /\ UNCHANGED call

\* the rollback that also takes over the optimizer of the checkpoint
Rollback_LoadsOptimizer ==
    /\ pc = "rollback"
    /\ switch_to_rl /\ ~best
    /\ LET r == load_checkpoint(best_model, model_sd, rng)
       IN /\ pc' = IF r.raised THEN "error" ELSE "save"
          /\ model_sd' = r.model_sd
          /\ rng' = r.rng
          /\ optim' = IF r.found /\ ~r.raised THEN r.ret.optimizer ELSE optim
    /\ UNCHANGED <<epoch, scheduler, locals, epoch_locals, files, run_hist,
                   write_hist, global_hist>>
    /\ UNCHANGED call

\* lines 328-331: `if switch_to_rl and not best: self.load_checkpoint(best)`
Rollback ==
    /\ pc = "rollback"
    /\ switch_to_rl /\ ~best
    /\ LET r == load_checkpoint(best_model, model_sd, rng)
       IN /\ pc' = IF r.raised THEN "error" ELSE "save"
          /\ model_sd' = r.model_sd
          /\ rng' = r.rng
    /\ UNCHANGED <<epoch, optim, scheduler, locals, epoch_locals, files, run_hist,
                   write_hist, global_hist>>
    /\ UNCHANGED call

NoRollback ==
    /\ pc = "rollback"
    /\ ~(switch_to_rl /\ ~best)
    /\ pc' = "save"
    /\ UNCHANGED <<fields, locals, epoch_locals, files, run_hist, write_hist, global_hist>>
    /\ UNCHANGED call

\* lines 333-340: torch.save runs to its end
SaveCheckpoint ==
    /\ pc = "save"
    /\ pc' = "promote"
    /\ last_model' = Complete(save_checkpoint(
            [val_loss |-> val_loss, val_cider |-> val_cider, patience |-> patience,
             best_val_cider |-> best_val_cider, best_test_cider |-> best_test_cider,
             use_rl |-> use_rl]))
    /\ last_writes' = last_writes + 1
    /\ mem_at_save' = [mem_at_save EXCEPT !.last =
            RunState(epoch, use_rl, best_val_cider, best_test_cider, patience, model_sd)]
    /\ UNCHANGED <<fields, locals, epoch_locals, best_model, run_hist, best_writes,
                   restarts>>
    /\ UNCHANGED call

\* lines 342-348: copyfile(last_model.pth, best_model.pth) runs to its end
PromoteBest ==
    /\ pc = "promote"
    /\ best
    /\ pc' = "advance"
    /\ best_model' = last_model
    /\ best_writes' = best_writes + 1
    /\ mem_at_save' = [mem_at_save EXCEPT !.best = mem_at_save.last]
    /\ UNCHANGED <<fields, locals, epoch_locals, last_model, run_hist, last_writes,
                   restarts>>
    /\ UNCHANGED call

\* the copy made without `if best:`
NoPromote_Copies ==
    /\ pc = "promote"
    /\ ~best
    /\ pc' = "advance"
    /\ best_model' = last_model
    /\ best_writes' = best_writes + 1
    /\ mem_at_save' = [mem_at_save EXCEPT !.best = mem_at_save.last]
    /\ UNCHANGED <<fields, locals, epoch_locals, last_model, run_hist, last_writes,
                   restarts>>
    /\ UNCHANGED call

NoPromote ==
    /\ pc = "promote"
    /\ ~best
    /\ pc' = "advance"
    /\ UNCHANGED <<fields, locals, epoch_locals, files, run_hist, write_hist, global_hist>>
    /\ UNCHANGED call

\* `self.epoch += 1` placed before the break
ExitTrain_IncrementsEpoch ==
    /\ pc = "advance"
    /\ exit_train
    /\ pc' = "done"
    /\ epoch' = epoch + 1
    /\ UNCHANGED <<model_sd, optim, scheduler, rng, locals, epoch_locals, files,
                   run_hist, write_hist, global_hist>>
    /\ UNCHANGED call

\* lines 350-351: `if exit_train: break`
ExitTrain ==
    /\ pc = "advance"
    /\ exit_train
    /\ pc' = "done"
    /\ UNCHANGED <<fields, locals, epoch_locals, files, run_hist, write_hist, global_hist>>
    /\ UNCHANGED call

\* line 353: `self.epoch += 1`, and the loop goes round
NextEpoch ==
    /\ pc = "advance"
    /\ ~exit_train
    /\ pc' = "train"
    /\ epoch' = epoch + 1
    /\ prev_val' = <<val_cider>>
    /\ prev_best' = best
    /\ UNCHANGED <<model_sd, optim, scheduler, rng, locals, epoch_locals, files,
                   run_fresh, asked, evals, seen_max, max_epoch, streak, prev_rl,
                   write_hist, global_hist>>
    /\ UNCHANGED call

\* ------------------------------------------------------------ interruption
\* the memory of a process that is gone
Forgotten ==
    /\ epoch' = 0
    /\ model_sd' = InitWeights
    /\ optim' = InitOptim
    /\ scheduler' = 0
    /\ rng' = InitRng
    /\ use_rl' = FALSE
    /\ best_val_cider' = 0
    /\ best_test_cider' = 0
    /\ patience' = 0
    /\ Constructed
    /\ run_fresh' = TRUE
    /\ asked' = "none"
    /\ evals' = 0
    /\ seen_max' = 0
    /\ max_epoch' = 0
    /\ streak' = 0
    /\ prev_rl' = FALSE
    /\ prev_val' = <<>>
    /\ prev_best' = FALSE
    /\ last_writes' = 0
    /\ best_writes' = 0
    /\ UNCHANGED global_hist

\* the operator interrupts the process between two statements of the loop
Interrupt ==
    /\ pc \in Running
    /\ restarts < MaxRestarts
    /\ pc' = "down"
    /\ Forgotten
    /\ UNCHANGED files
    /\ UNCHANGED call

\* the process dies inside torch.save: last_model.pth was opened for writing
\* (truncated) and is not complete
CrashDuringSave ==
    /\ pc = "save"
    /\ restarts < MaxRestarts
    /\ pc' = "down"
    /\ last_model' = Partial
    /\ Forgotten
    /\ UNCHANGED best_model
    /\ UNCHANGED call

\* the process dies inside copyfile: best_model.pth is not complete
CrashDuringCopy ==
    /\ pc = "promote"
    /\ best
    /\ restarts < MaxRestarts
    /\ pc' = "down"
    /\ best_model' = Partial
    /\ Forgotten
    /\ UNCHANGED last_model
    /\ UNCHANGED call

Choices == {"none", "last", "best"}

Next ==
    \/ \E choice \in Choices : StartFresh(choice)
    \/ \E choice \in Choices : StartResume(choice)
    \/ train_xe
    \/ train_scst
    \/ Evaluate
    \/ PolicyUpdate
    \/ PhaseCheck
    \/ Rollback
    \/ NoRollback
    \/ SaveCheckpoint
    \/ PromoteBest
    \/ NoPromote
    \/ ExitTrain
    \/ NextEpoch
    \/ Interrupt
    \/ CrashDuringSave
    \/ CrashDuringCopy

Spec == Init /\ [][Next]_vars

\* =================================================== functions on their own
\* The functions train calls once per batch, applied to drawn arguments.
\* `call` holds the arguments (arg) and the values returned so far (ret).

\* ------------------------------------------------ caption post-processing
Tokens == 1..MaxToken
Captions == UNION {[1..n -> Tokens] : n \in 0..MaxLen}

Last(s) == s[Len(s)]

RECURSIVE groupby_from(_, _)
\* itertools.groupby walks gen_i once and opens a new group whenever the
\* token differs from the key of the group it is in; keys holds the keys of
\* the groups opened so far
groupby_from(keys, rest) ==
    IF rest = <<>> THEN keys
    ELSE IF keys # <<>> /\ Head(rest) = Last(keys)
         THEN groupby_from(keys, Tail(rest))
         ELSE groupby_from(Append(keys, Head(rest)), Tail(rest))

RECURSIVE unique_from(_, _)
unique_from(keys, rest) ==
    IF rest = <<>> THEN keys
    ELSE IF \E i \in 1..Len(keys) : keys[i] = Head(rest)
         THEN unique_from(keys, Tail(rest))
         ELSE unique_from(Append(keys, Head(rest)), Tail(rest))

\* every token kept once, wherever it was seen before
groupby_keys_Unique(gen_i) == unique_from(<<>>, gen_i)

\* [k for k, g in itertools.groupby(gen_i)]
groupby_keys(gen_i) == groupby_from(<<>>, gen_i)

PostProcessCalls == {[op |-> "groupby", arg |-> s, ret |-> <<>>] : s \in Captions}

\* the post-processing is applied to the caption, then to its own result
PostProcess ==
    /\ call.op = "groupby"
    /\ Len(call.ret) < 2
    /\ call' = [call EXCEPT !.ret =
                  Append(@, groupby_keys(IF @ = <<>> THEN call.arg ELSE Last(@)))]
    /\ UNCHANGED trainer

\* ------------------------------------------------------- evaluate_metrics
\* one batch as the loop of evaluate_metrics sees it: the number of reference
\* sets in sample["captions"] and the number of captions decoded from what
\* beam_search was asked for with batch_size=dataloader.batch_size
BatchShapes == [caps_gt : 1..MaxBatchSize, caps_gen : 0..MaxBatchSize]
Dataloaders == UNION {[1..n -> BatchShapes] : n \in 1..NumBatches}

Min(a, b) == IF a <= b THEN a ELSE b

RECURSIVE evaluate_loop(_, _, _)
\* `for it, sample in enumerate(dataloader)`: zip stops at the shorter of
\* caps_gt and caps_gen, and each pair enters gen and gts under one key
evaluate_loop(dataloader, it, dicts) ==
    IF it > Len(dataloader) THEN dicts
    ELSE LET sample == dataloader[it]
             keys == {<<it - 1, i>> : i \in 0..(Min(sample.caps_gt, sample.caps_gen) - 1)}
         IN evaluate_loop(dataloader, it + 1,
                          [gen |-> dicts.gen \cup keys, gts |-> dicts.gts \cup keys])

\* the keys of gen and gts go to evaluation.compute_scores, which can at
\* most refuse two dictionaries whose keys differ; scored is what it scores
evaluate_metrics(dataloader) ==
    LET dicts == evaluate_loop(dataloader, 1, [gen |-> {}, gts |-> {}])
    IN [raised |-> dicts.gen # dicts.gts, scored |-> dicts.gen \cap dicts.gts]

EvaluateMetricsCalls ==
    {[op |-> "evaluate_metrics", arg |-> d, ret |-> <<>>] : d \in Dataloaders}

CallEvaluateMetrics ==
    /\ call.op = "evaluate_metrics"
    /\ call.ret = <<>>
    /\ call' = [call EXCEPT !.ret = <<evaluate_metrics(call.arg)>>]
    /\ UNCHANGED trainer

\* ------------------------------------------------- train_scst, one batch
\* the arguments of one step: the configured batch size of
\* train_dict_dataloader, training_beam_size, and the CIDEr reward of every
\* candidate of the batch, sample after sample (the batch holds
\* Len(reward) / beam_size samples, fewer than batch_size when it is the
\* last batch of a dataset that batch_size does not divide)
ScstSteps ==
    UNION {UNION {UNION {
        [batch_size : {bs}, beam_size : {b}, reward : [1..(n * b) -> 0..MaxReward]]
        : n \in 1..bs} : b \in 1..MaxBeamSize} : bs \in 1..MaxBatchSize}

RECURSIVE SumSeq(_)
SumSeq(s) == IF s = <<>> THEN 0 ELSE Head(s) + SumSeq(Tail(s))

\* torch.mean(log_probs, -1) of candidate j of a sample: beam_search returns
\* the candidates of a sample best first
LogProbOf(j) == 0 - j

\* line 204: outs.view(-1, max_caption_length) lists the candidates sample
\* after sample; entry k is candidate <<sample, rank>>
caps_gen_flat(n, b) == [k \in 1..(n * b) |-> <<((k - 1) \div b) + 1, ((k - 1) % b) + 1>>]

\* line 205: every sample's references repeated beam_size times; entry k is
\* the sample whose references candidate k is scored against
caps_gt_repeated(n, b) == [k \in 1..(n * b) |-> ((k - 1) \div b) + 1]

\* lines 207-211. Means are kept exact as integers: reward_baseline and the
\* advantage are held times beam_size, the loss times beam_size times the
\* number of candidates.
scst_loss(step) ==
    LET bs == step.batch_size
        b == step.beam_size
    IN IF Len(step.reward) # bs * b
       \* view(batch_size, beam_size) of a tensor of another size raises
       THEN [raised |-> TRUE, reward |-> <<>>, reward_baseline |-> <<>>,
             advantage |-> <<>>, loss |-> 0]
       ELSE LET reward == [i \in 1..bs |-> [j \in 1..b |-> step.reward[(i - 1) * b + j]]]
                reward_baseline == [i \in 1..bs |-> SumSeq(reward[i])]
                advantage == [i \in 1..bs |-> [j \in 1..b |->
                                 b * reward[i][j] - reward_baseline[i]]]
                loss == SumSeq([i \in 1..bs |-> SumSeq([j \in 1..b |->
                                 (0 - LogProbOf(j)) * advantage[i][j]])])
            IN [raised |-> FALSE, reward |-> reward,
                reward_baseline |-> reward_baseline,
                advantage |-> advantage, loss |-> loss]

ScstCalls == {[op |-> "train_scst", arg |-> s, ret |-> <<>>] : s \in ScstSteps}

CallScstStep ==
    /\ call.op = "train_scst"
    /\ call.ret = <<>>
    /\ call' = [call EXCEPT !.ret = <<scst_loss(call.arg)>>]
    /\ UNCHANGED trainer

\* -------------------------------------------- train, two runs side by side
\* two uninterrupted runs from fresh state are given the same validation
\* CIDEr at every epoch; their starting weights (so their validation losses)
\* and their test CIDEr are drawn apart

\* the policy reads the CIDEr of the test scores
PolicyMetric_Test(val_scores, test_scores) == test_scores

\* `val_cider = scores['CIDEr']` is taken from the validation scores; the
\* scores of test_dict_dataloader are printed and dropped
PolicyMetric(val_scores, test_scores) == val_scores

\* lines 282-286 on the weights sd; best_sd is what best_model.pth holds
FreshRun(sd) ==
    [epoch |-> 0, use_rl |-> FALSE, patience |-> 0, best_val_cider |-> 0,
     model_sd |-> sd, best_sd |-> <<>>, val_loss |-> 0, test_cider |-> 0,
     exit_train |-> FALSE]

\* one pass of the while loop, lines 289-353
train_epoch(run, val_scores, test_scores) ==
    LET trained == run.model_sd + 2
        cider == PolicyMetric(val_scores, test_scores)
        isbest == IsBest(cider, run.best_val_cider)
        counted == IF isbest THEN 0 ELSE run.patience + 1
        switch == PatienceReached(counted) /\ ~run.use_rl
        exit == PatienceReached(counted) /\ run.use_rl
        sd == IF switch /\ ~isbest /\ run.best_sd # <<>>
              THEN run.best_sd[1] ELSE trained
    IN [epoch |-> IF exit THEN run.epoch ELSE run.epoch + 1,
        use_rl |-> run.use_rl \/ switch,
        patience |-> IF switch THEN 0 ELSE counted,
        best_val_cider |-> IF isbest THEN cider ELSE run.best_val_cider,
        model_sd |-> sd,
        best_sd |-> IF isbest THEN <<sd>> ELSE run.best_sd,
        val_loss |-> LossOf(trained),
        test_cider |-> test_scores,
        exit_train |-> exit]

TwinCalls ==
    {[op |-> "train", arg |-> <<a, b>>, ret |-> <<FreshRun(a), FreshRun(b)>>] :
        a \in {InitWeights}, b \in {InitWeights, InitWeights + 1}}

\* both runs go through one epoch; a run that has left the loop stays
TwinEpoch ==
    /\ call.op = "train"
    /\ \E i \in 1..2 : ~call.ret[i].exit_train
    /\ \A i \in 1..2 : call.ret[i].epoch < MaxEpoch
    /\ \E val_scores \in Metrics, test_a \in Metrics, test_b \in Metrics :
         LET Step(run, t) == IF run.exit_train THEN run
                             ELSE train_epoch(run, val_scores, t)
         IN call' = [call EXCEPT !.ret = <<Step(@[1], test_a), Step(@[2], test_b)>>]
    /\ UNCHANGED trainer

\* ------------------------------------------------------------------------
CallsInit ==
    /\ Idle
    /\ call \in PostProcessCalls \cup EvaluateMetricsCalls \cup ScstCalls \cup TwinCalls

CallsNext ==
    \/ PostProcess
    \/ CallEvaluateMetrics
    \/ CallScstStep
    \/ TwinEpoch

CallSpec == CallsInit /\ [][CallsNext]_vars

\* ------------------------------------------------------------------ claims
\* the step of one statement group of the loop, taken to its end
PolicyStep == pc = "policy" /\ pc' = "phase"
PhaseStep == pc = "phase" /\ pc' = "rollback"

\* C1: in every epoch, after validation, a validation metric that is at
\* least best_val_metric becomes the new best_val_metric, resets patience to 0
\* and marks the epoch best; any other leaves best_val_metric alone, leaves
\* the epoch unmarked and adds exactly 1 to patience.
C1_PolicyUpdate ==
    [][PolicyStep =>
        IF val_cider >= best_val_cider
        THEN best_val_cider' = val_cider /\ patience' = 0 /\ best'
        ELSE best_val_cider' = best_val_cider /\ ~best' /\ patience' = patience + 1]_vars

\* a non-improving evaluation has been counted on top of earlier ones
C1_Witness ==
    /\ pc = "phase"
    /\ ~best
    /\ val_cider < best_val_cider
    /\ patience = 3

\* C2: in an uninterrupted run from fresh state the phase goes from
\* SUPERVISED to REINFORCEMENT at the evaluation that is the 5th consecutive
\* non-improving one in SUPERVISED, at no other, and patience is then 0;
\* SUPERVISED never sees a 6th.
C2_SwitchAtFifth ==
    [][run_fresh =>
        /\ PhaseStep =>
             /\ (~use_rl /\ use_rl') <=> (~use_rl /\ streak = 5)
             /\ (~use_rl /\ use_rl') => patience' = 0
        /\ (pc' \in Running /\ ~use_rl') => streak' <= 5]_vars

\* metrics 1, 0, 0, 0, 0, 0 from fresh state: the switch is made at the
\* 6th evaluation
C2_Witness ==
    /\ run_fresh
    /\ pc = "rollback"
    /\ switch_to_rl
    /\ use_rl
    /\ evals = 6
    /\ epoch = 5
    /\ streak = 5
    /\ seen_max = 1
    /\ patience = 0

\* C3: the loop exits exactly when patience has reached 5 in REINFORCEMENT:
\* at the end of that epoch, after its "last" checkpoint is written, with the
\* epoch counter and the weights left as they are.
C3_ExitOnlyAtPatienceInRL ==
    [][/\ PhaseStep => (exit_train' <=> (use_rl /\ patience = 5))
       /\ (pc = "advance" /\ exit_train /\ pc' # "down") =>
             /\ pc' = "done"
             /\ epoch' = epoch
             /\ model_sd' = model_sd
             /\ last_writes = 1
             /\ Readable(last_model)
             /\ last_model.data.epoch = epoch
             /\ last_model.data.patience = 5
             /\ last_model.data.use_rl
       /\ (pc' = "done" /\ pc # "done") => (pc = "advance" /\ exit_train)]_vars

C3_Witness ==
    /\ pc = "done"
    /\ exit_train
    /\ use_rl
    /\ patience = 5
    /\ ~best

\* C4 as stated: when two consecutive epochs produce identical validation
\* metrics, the second leaves best_val_metric alone, is not marked best and
\* increments patience.
C4_Original ==
    [][(PolicyStep /\ prev_val = <<val_cider>>) =>
        /\ best_val_cider' = best_val_cider
        /\ ~best'
        /\ patience' = patience + 1]_vars

\* C4 amended: when two consecutive epochs produce identical validation
\* metrics, the value of best_val_metric does not change on the second epoch;
\* the second epoch is marked best exactly when the first was (a tie counts
\* as an improvement) and then has patience 0, and otherwise patience
\* increases by 1.
C4_TieFollowsFirstEpoch ==
    [][(PolicyStep /\ prev_val = <<val_cider>>) =>
        /\ best_val_cider' = best_val_cider
        /\ best' = prev_best
        /\ patience' = IF prev_best THEN 0 ELSE patience + 1]_vars

\* the first two epochs of a fresh run return the same metric
C4_Witness ==
    /\ pc = "phase"
    /\ run_fresh
    /\ evals = 2
    /\ prev_val = <<val_cider>>
    /\ prev_best
    /\ best
    /\ patience = 0

\* C5: at the end of the epoch in which the phase changes to REINFORCEMENT
\* the weights in memory, and so the weights written to "last", are the
\* weights stored in the "best" slot.
C5_SwitchStartsFromBest ==
    (pc = "advance" /\ switch_to_rl) =>
        /\ Readable(best_model)
        /\ model_sd = best_model.data.state_dict
        /\ Readable(last_model)
        /\ last_model.data.state_dict = best_model.data.state_dict

\* the same in the runs of a directory whose process was never stopped and
\* started again: there the rollback always finds a "best" checkpoint
SwitchStartsFromBest_FirstProcess ==
    restarts = 0 => C5_SwitchStartsFromBest

\* C6: every epoch writes "last" exactly once, whatever the policy outcome,
\* and writes "best" exactly when the epoch is marked best; "last" changes
\* only in the save step and "best" only in the promotion of a best epoch.
C6_SlotWrites ==
    [][/\ pc' = "advance" =>
             /\ last_writes' = 1
             /\ best_writes' = IF best' THEN 1 ELSE 0
       /\ last_model' # last_model => pc = "save"
       /\ best_model' # best_model => (pc = "promote" /\ best)]_vars

\* the terminal epoch has written "last" and not "best"
C6_Witness ==
    /\ pc = "advance"
    /\ exit_train
    /\ ~best
    /\ last_writes = 1
    /\ best_writes = 0
    /\ Readable(best_model)
    /\ best_model # last_model

\* C7: right after an epoch marked best the "best" slot holds what the "last"
\* slot holds, with the epoch field of the epoch just completed.
C7_BestEqualsLast ==
    (pc = "advance" /\ best) =>
        /\ Readable(best_model)
        /\ best_model = last_model
        /\ best_model.data.epoch = epoch
        /\ run_fresh => best_model.data.epoch = evals - 1

\* a later best epoch has replaced an earlier "best"
C7_Witness ==
    /\ pc = "advance"
    /\ best
    /\ epoch = 3
    /\ best_model = last_model
    /\ best_model.data.epoch = 3

\* a run that has just been resumed and has not trained yet
JustResumed == pc = "train" /\ evals = 0 /\ ~run_fresh

\* C8: what train restores from a checkpoint is what was in memory when
\* save_checkpoint wrote it: epoch, best_val_metric, best_test_metric,
\* patience, phase and model weights.
C8_RoundTrip ==
    JustResumed =>
        RunState(epoch, use_rl, best_val_cider, best_test_cider, patience, model_sd)
            = mem_at_save[asked]

\* resumed in REINFORCEMENT from a "last" written in a later epoch
C8_Witness ==
    /\ JustResumed
    /\ asked = "last"
    /\ use_rl
    /\ epoch = 7
    /\ patience = 2
    /\ best_val_cider = 1
    /\ model_sd # InitWeights

\* a run whose start has been asked to resume and has not trained yet
JustAsked == evals = 0 /\ pc \in {"train", "error"} /\ asked # "none"

FreshState ==
    /\ ~use_rl
    /\ patience = 0
    /\ best_val_cider = 0
    /\ best_test_cider = 0
    /\ epoch = 0

\* C9 as stated: asked to resume from a missing or corrupt checkpoint, train
\* raises no error and starts from the fresh state.
C9_Original ==
    (JustAsked /\ ~Readable(FileOf(asked))) => (pc = "train" /\ FreshState)

\* C9 amended: asked to resume from a missing checkpoint, train raises no
\* error and starts from the fresh state (SUPERVISED, patience 0,
\* best_val_metric 0, best_test_metric 0, epoch 0), while a corrupt
\* checkpoint makes train raise; load_checkpoint on an absent path returns the
\* not-found value without changing model weights or RNG state.
C9_MissingIsFresh ==
    [][/\ (JustAsked /\ FileOf(asked) = Absent)' =>
             (pc = "train" /\ FreshState /\ model_sd = InitWeights /\ rng = InitRng)'
       /\ (JustAsked /\ FileOf(asked) = Partial)' => (pc = "error")'
       /\ (pc = "rollback" /\ switch_to_rl /\ ~best /\ best_model = Absent
              /\ pc' # "down") =>
             (pc' = "save" /\ model_sd' = model_sd /\ rng' = rng)]_vars

\* a run interrupted before its first save is started again on "last"
C9_Witness ==
    /\ JustAsked
    /\ asked = "last"
    /\ last_model = Absent
    /\ restarts = 1
    /\ pc = "train"
    /\ FreshState

\* C10: a crash during save_checkpoint never costs the previous valid
\* checkpoint: once "last" holds a complete checkpoint it holds one at every
\* later instant.
C10_LastStaysValid ==
    [][Readable(last_model) => Readable(last_model')]_vars

\* C11 as stated: a run started again on the "last" checkpoint of epoch k
\* goes on as the uninterrupted run would: its next training pass has the
\* phase, patience and best_val_metric of the save and epoch counter k + 1.
C11_ResumeContinues ==
    (JustResumed /\ asked = "last") =>
        /\ use_rl = mem_at_save.last.use_rl
        /\ patience = mem_at_save.last.patience
        /\ best_val_cider = mem_at_save.last.best_val_cider
        /\ epoch = mem_at_save.last.epoch + 1

\* C16 as stated, for every run, resumed ones included: once 5 consecutive
\* evaluations made in REINFORCEMENT have not improved on the best metric the
\* run knows, the loop exits at the end of that epoch.
C16_ExitsAfterFiveInRL ==
    (pc = "advance" /\ use_rl /\ prev_rl /\ streak >= 5) => exit_train

\* the same in the runs that start from fresh state
ExitsAfterFiveInRL_FreshRun ==
    run_fresh => C16_ExitsAfterFiveInRL

\* C17 as stated: at the start of every training pass patience is in 0..4,
\* also in the first epoch of a run resumed from a checkpoint train wrote.
C17_PatienceBelowThreshold ==
    pc = "train" => patience \in 0..(PatienceThreshold - 1)

\* the same in the runs that start from fresh state
PatienceBelowThreshold_FreshRun ==
    run_fresh => C17_PatienceBelowThreshold

\* the policy of this epoch has been applied
PolicyApplied == pc \in {"rollback", "save", "promote", "advance", "done"}

\* C18: the epoch that switches to REINFORCEMENT and the terminal epoch are
\* never marked best, so every switch calls the rollback and the "best" slot
\* is not written in such an epoch.
C18_SwitchEpochNotBest ==
    [][/\ (PolicyApplied /\ (switch_to_rl \/ exit_train))' => ~best'
       /\ (pc = "rollback" /\ switch_to_rl /\ pc' # "down") =>
             LET r == load_checkpoint(best_model, model_sd, rng)
             IN /\ model_sd' = r.model_sd
                /\ rng' = r.rng
                /\ pc' = IF r.raised THEN "error" ELSE "save"
       /\ best_model' # best_model => (~switch_to_rl /\ ~exit_train)]_vars

\* a switch epoch has rolled the weights back to those of "best"
C18_Witness ==
    /\ pc = "save"
    /\ switch_to_rl
    /\ ~best
    /\ Readable(best_model)
    /\ model_sd = best_model.data.state_dict
    /\ model_sd # TrainedWeights

\* C19 as stated: whenever the rollback runs, the "best" slot holds a
\* checkpoint, so the rollback is never a silent no-op.
C19_RollbackFindsBest ==
    (pc = "rollback" /\ switch_to_rl /\ ~best) => isfile(best_model)

\* the end of an epoch
EndOfEpoch == pc \in {"advance", "done"} \/ (pc = "train" /\ evals > 0)

\* C20: best_val_metric never decreases across the epochs of a run; after
\* every epoch of a run from fresh state it is the maximum validation metric
\* seen, and the "best" slot holds the checkpoint of the most recent epoch
\* that attained it, with val_cider = best_val_cider in the slot.
C20_BestIsRunningMax ==
    [][/\ (pc \in Running /\ pc' \in Running) => best_val_cider' >= best_val_cider
       /\ (EndOfEpoch /\ run_fresh)' =>
             /\ best_val_cider' = seen_max'
             /\ Readable(best_model')
             /\ (best_model.data.epoch)' = max_epoch'
             /\ (best_model.data.val_cider)' = seen_max'
             /\ (best_model.data.best_val_cider)' = seen_max'
             /\ (best_model.data.val_cider)' = (best_model.data.best_val_cider)']_vars

\* the maximum was attained twice and the later epoch is the one kept
C20_Witness ==
    /\ pc = "advance"
    /\ run_fresh
    /\ epoch = 4
    /\ ~best
    /\ seen_max = 1
    /\ max_epoch = 3
    /\ best_model.data.epoch = 3
    /\ prev_best
    /\ prev_val = <<1>>

\* a caption in which no token equals the one before it
NoAdjacentEqual(s) == \A i \in 1..(Len(s) - 1) : s[i] # s[i + 1]

\* the positions of s that start a run of equal tokens
RunStarts(s) == {i \in 1..Len(s) : i = 1 \/ s[i] # s[i - 1]}

\* C13: collapsing the runs of equal adjacent tokens is idempotent (a second
\* application returns what the first returned); the result has no two
\* equal adjacent tokens; it keeps exactly the first token of every run, in
\* order, so a token that comes back after another token is kept again and
\* a caption without adjacent repetitions is returned as it is.
C13_CollapseIdempotent ==
    (call.op = "groupby" /\ call.ret # <<>>) =>
        LET s == call.arg
            once == call.ret[1]
            KthStart(k) ==
                CHOOSE i \in RunStarts(s) :
                    Cardinality({j \in RunStarts(s) : j <= i}) = k
        IN /\ Len(call.ret) = 2 => call.ret[2] = once
           /\ NoAdjacentEqual(once)
           /\ Len(once) = Cardinality(RunStarts(s))
           /\ \A k \in 1..Len(once) : once[k] = s[KthStart(k)]
           /\ NoAdjacentEqual(s) => once = s

C13_Witness ==
    /\ call.op = "groupby"
    /\ call.arg = <<1, 1, 2, 1>>
    /\ call.ret = <<(<<1, 2, 1>>), (<<1, 2, 1>>)>>

\* the sample ids of a dataloader's references, and of its generated captions
ReferenceIds(d) == UNION {{<<it - 1, i>> : i \in 0..(d[it].caps_gt - 1)} : it \in 1..Len(d)}
GeneratedIds(d) == UNION {{<<it - 1, i>> : i \in 0..(d[it].caps_gen - 1)} : it \in 1..Len(d)}

\* C12: evaluate_metrics raises whenever the sample ids of the generated
\* captions are not the sample ids of the references (a batch with more or
\* fewer generated captions than reference sets included), and when it does
\* return scores they are scores of every sample.
C12_AbortsOnMisalignment ==
    (call.op = "evaluate_metrics" /\ call.ret # <<>>) =>
        LET r == call.ret[1]
        IN /\ GeneratedIds(call.arg) # ReferenceIds(call.arg) => r.raised
           /\ ~r.raised => r.scored = ReferenceIds(call.arg)

\* when every batch has as many generated captions as reference sets,
\* evaluate_metrics scores every sample
ScoresAllWhenAligned ==
    (/\ call.op = "evaluate_metrics" /\ call.ret # <<>>
     /\ GeneratedIds(call.arg) = ReferenceIds(call.arg)) =>
        /\ ~call.ret[1].raised
        /\ call.ret[1].scored = ReferenceIds(call.arg)

\* the step of the call has returned with beam_size = 1
SingleBeamStep == call.op = "train_scst" /\ call.ret # <<>> /\ call.arg.beam_size = 1

\* the baseline is the reward, the advantage and the loss are 0
ZeroSignal(r, bs) ==
    /\ \A i \in 1..bs : r.reward_baseline[i] = r.reward[i][1]
    /\ \A i \in 1..bs : r.advantage[i][1] = 0
    /\ r.loss = 0

\* C14: an RL step with beam_size = 1 does not fail, its baseline equals the
\* reward of every sample, every advantage is 0 and the loss is 0.
C14_SingleBeamZeroLoss ==
    SingleBeamStep =>
        /\ ~call.ret[1].raised
        /\ ZeroSignal(call.ret[1], call.arg.batch_size)

\* the same on batches that hold batch_size samples
SingleBeamZeroLoss_FullBatch ==
    (SingleBeamStep /\ Len(call.arg.reward) = call.arg.batch_size) =>
        /\ ~call.ret[1].raised
        /\ ZeroSignal(call.ret[1], call.arg.batch_size)

\* what the policy of a run has decided so far
Control(run) ==
    <<run.use_rl, run.patience, run.best_val_cider, run.epoch, run.exit_train>>

\* C15: two uninterrupted runs that are given the same validation metric at
\* every epoch have the same phase, patience and best_val_cider after every
\* epoch and leave the loop in the same epoch, whatever their test metrics,
\* validation losses and weights are.
C15_PolicyReadsValidationOnly ==
    call.op = "train" => Control(call.ret[1]) = Control(call.ret[2])

C15_Witness ==
    /\ call.op = "train"
    /\ call.ret[1].exit_train /\ call.ret[2].exit_train
    /\ call.ret[1].epoch = 11
    /\ call.ret[1].best_val_cider = 1
    /\ call.ret[1].model_sd # call.ret[2].model_sd
    /\ call.ret[1].val_loss # call.ret[2].val_loss
    /\ call.ret[1].test_cider # call.ret[2].test_cider

\* C21: within a process the phase never goes from REINFORCEMENT back to
\* SUPERVISED and only changes in the phase check of a switch epoch; a run
\* resumed from a checkpoint that was written in REINFORCEMENT (in the
\* switch epoch or later) trains in REINFORCEMENT; and when a training pass
\* follows an epoch, or a resume from "last", its phase is the flag that
\* "last" holds.
C21_PhaseMonotone ==
    [][/\ (pc \in Running /\ pc' \in Running /\ use_rl) => use_rl'
       /\ (pc \in Running /\ pc' \in Running /\ use_rl' # use_rl) =>
             (pc = "phase" /\ switch_to_rl')
       /\ (JustResumed /\ mem_at_save[asked].use_rl)' => use_rl'
       /\ (pc = "train" /\ (evals > 0 \/ (JustResumed /\ asked = "last")))' =>
             (Readable(last_model) /\ last_model.data.use_rl = use_rl)']_vars

\* resumed in REINFORCEMENT from the "last" of the switch epoch
C21_Witness ==
    /\ JustResumed
    /\ asked = "last"
    /\ use_rl
    /\ epoch = 5
    /\ patience = 0
    /\ last_model.data.use_rl
    /\ Readable(best_model)
    /\ best_model.data.use_rl = FALSE

\* the statement of lines 328-331 is executed
RollbackStep ==
    pc = "rollback" /\ switch_to_rl /\ ~best /\ pc' \in {"save", "error"}

\* what the rollback leaves alone: the policy state of the switch epoch and
\* the optimizer made for RL
RollbackFrame ==
    /\ UNCHANGED <<epoch, patience, best_val_cider, best_test_cider, use_rl>>
    /\ patience' = 0 /\ use_rl'
    /\ optim = RLOptim /\ optim' = RLOptim
    /\ UNCHANGED <<scheduler, files>>

\* C22 as stated: the rollback restores the model weights and nothing else.
C22_Original ==
    [][RollbackStep => (RollbackFrame /\ rng' = rng)]_vars

\* C22: the rollback at the switch leaves the epoch counter, patience (0),
\* best_val_cider, best_test_cider, the phase (REINFORCEMENT), the scheduler
\* and the optimizer made for RL as they are; from a readable "best" file it
\* takes the model weights and also the RNG state, and when there is no such
\* file it changes nothing.
C22_RollbackRestoresWeightsAndRng ==
    [][RollbackStep =>
          /\ RollbackFrame
          /\ (Readable(best_model) /\ pc' = "save") =>
                /\ model_sd' = best_model.data.state_dict
                /\ rng' = best_model.data.rng
          /\ ~Readable(best_model) => UNCHANGED <<model_sd, rng>>]_vars

\* after a rollback that found the file: weights and RNG of "best", the
\* optimizer still the one of line 322
C22_Witness ==
    /\ pc = "save" /\ switch_to_rl /\ ~best
    /\ Readable(best_model)
    /\ model_sd = best_model.data.state_dict
    /\ rng = best_model.data.rng
    /\ rng # 2 * TrainedWeights + 1
    /\ optim = RLOptim
    /\ best_model.data.optimizer # RLOptim
    /\ patience = 0 /\ use_rl

\* a training pass runs from its first batch to its last
TrainingPass == pc = "train" /\ pc' = "eval"

\* C23 as stated: every training pass, supervised or RL, advances the
\* scheduler by the number of its batches.
C23_Original ==
    [][TrainingPass => scheduler' = scheduler + NumBatches]_vars

\* C23: a supervised pass over n batches advances the scheduler by n; an RL
\* pass leaves the scheduler where it is; both make n optimizer steps.
C23_SchedulerStepsInXEOnly ==
    [][TrainingPass =>
          /\ scheduler' = scheduler + (IF use_rl THEN 0 ELSE NumBatches)
          /\ optim'.steps = optim.steps + NumBatches]_vars

\* the first RL pass of a run from fresh state is over: six supervised
\* passes have moved the scheduler, the RL pass has not
C23_Witness ==
    /\ pc = "eval" /\ use_rl /\ run_fresh
    /\ epoch = 6
    /\ scheduler = 6 * NumBatches
    /\ optim = [kind |-> "rl", steps |-> NumBatches]

\* the step of the call has returned
ScstStepDone == call.op = "train_scst" /\ call.ret # <<>>

\* the samples the batch of the call holds
SamplesOf(step) == Len(step.reward) \div step.beam_size

\* the rewards stand in one row per sample of the batch, row i holding the
\* rewards of the candidates of sample i against the references of sample i
RewardRows(step, r) ==
    LET n == SamplesOf(step)
        b == step.beam_size
    IN /\ Len(r.reward) = n
       /\ \A i \in 1..n : \A j \in 1..b :
            LET k == (i - 1) * b + j
            IN /\ r.reward[i][j] = step.reward[k]
               /\ caps_gen_flat(n, b)[k] = <<i, j>>
               /\ caps_gt_repeated(n, b)[k] = i

\* C24: on every batch of an RL pass, a final batch with fewer samples than
\* batch_size included, the step does not fail and arranges the rewards in
\* one row per sample of the batch and beam_size columns, row i holding the
\* rewards of sample i's candidates against sample i's references.
C24_RewardRowsOnEveryBatch ==
    ScstStepDone =>
        /\ ~call.ret[1].raised
        /\ RewardRows(call.arg, call.ret[1])

\* the same on batches that hold batch_size samples
RewardRows_FullBatch ==
    (ScstStepDone /\ SamplesOf(call.arg) = call.arg.batch_size) =>
        /\ ~call.ret[1].raised
        /\ RewardRows(call.arg, call.ret[1])

\* a step on a short batch raises
ShortBatchRaises ==
    (ScstStepDone /\ SamplesOf(call.arg) < call.arg.batch_size) =>
        call.ret[1].raised

====
